---- MODULE Spec2Model ----
(***************************************************************************)
(* crsc::fixed_matrix<_Ty, _Rows, _Cols> (crescent_library/fixed_matrix.h) *)
(* as a state machine: one matrix object (template parameters Rows, Cols   *)
(* and its row-major storage mtx), a second operand, and the outcome of    *)
(* the last member-function call.  _Ty is int; the values used are far     *)
(* from the limits of int, so arithmetic is exact.                         *)
(*                                                                         *)
(* A std::array<_Ty, n> is a function with domain 0..n-1, so that the flat *)
(* indices of the model are the flat indices of the source.                *)
(***************************************************************************)
EXTENDS Integers, Sequences, FiniteSets, TLC

\* Largest row count and column count, and largest number of elements, of
\* the matrices the member functions are called on.
MaxDim == 3
MaxSize == 6

\* Largest row count and column count of the operands of operator*.
MaxMulDim == 2

\* Largest row count and column count, and largest number of elements, of
\* the two objects of one type that fill, swap, assignment, arithmetic and
\* comparison are called on.
MaxPairDim == 2
MaxPairSize == 4

\* Largest row count and column count of the objects constructed from a
\* nested source; the sources have up to one row and one column more.
MaxCtorDim == 2
MaxAccessDim == 2
MaxAccessSize == 4

\* Element values of the enumerated matrices.
Values == {0, 1}

\* What a read outside the storage (undefined behaviour) may yield.
Indeterminate == {0, 1, 7}

\* Marks an element of storage that no constructor has written yet.
Unwritten == -1

VARIABLES
    Rows,   \* _Rows of the object
    Cols,   \* _Cols of the object
    mtx,    \* the object's std::array<value_type, _Rows*_Cols>
    other,  \* the right-hand operand of a binary operation (a matrix value)
    op,     \* the member function that was called last ("none" before any call)
    args,   \* its arguments
    ret     \* its outcome: [kind, val], kind "ok" or the exception thrown

vars == <<Rows, Cols, mtx, other, op, args, ret>>

----------------------------------------------------------------------------
\* Matrix values.

\* A fixed_matrix value: its template dimensions and its storage.
Matrix(r, c, f) == [rows |-> r, cols |-> c, mtx |-> f]

\* *this
This == Matrix(Rows, Cols, mtx)

\* fixed_matrix() : mtx() {}  -- every element value-initialised.
DefaultMatrix(r, c) == Matrix(r, c, [k \in 0..(r * c - 1) |-> 0])

\* The storage given row by row: <<<<1,2>>,<<3,4>>>> is [[1,2],[3,4]].
FromRows(r, c, rws) ==
    Matrix(r, c, [k \in 0..(r * c - 1) |-> rws[(k \div c) + 1][(k % c) + 1]])

\* Every r x c matrix over Values.
MatricesOf(r, c) == {Matrix(r, c, f) : f \in [0..(r * c - 1) -> Values]}

\* The matrices named in the documentation's examples.
Example3x3 == FromRows(3, 3, <<<<1, 2, 3>>, <<4, 5, 6>>, <<7, 8, 9>>>>)
Example2x3 == FromRows(2, 3, <<<<1, 2, 3>>, <<4, 5, 6>>>>)
Example3x2 == FromRows(3, 2, <<<<7, 8>>, <<9, 10>>, <<11, 12>>>>)

Outcome(k, v) == [kind |-> k, val |-> v]

----------------------------------------------------------------------------
\* Element access.

\* std::array<_Ty, n>::at(pos): throws std::out_of_range unless pos < n.
array_at(arr, n, pos) ==
    IF pos >= n THEN Outcome("out_of_range", 0) ELSE Outcome("ok", arr[pos])

\* at() with the column left unchecked.
at_row_checked_only(m, row, col) ==
    IF row >= m.rows
    THEN Outcome("out_of_range", 0)
    ELSE array_at(m.mtx, m.rows * m.cols, row * m.cols + col)

\* at(_row_index, _col_index): the checked access.
at(m, row, col) ==
    IF row >= m.rows \/ col >= m.cols
    THEN Outcome("out_of_range", 0)
    ELSE array_at(m.mtx, m.rows * m.cols, row * m.cols + col)

\* at(row, col) = v writing before the row and column are checked, wherever
\* the flat index falls inside the storage.
at_assign_unordered(m, row, col, v) ==
    LET pos == row * m.cols + col
        written == IF pos < m.rows * m.cols
                   THEN [m.mtx EXCEPT ![pos] = v] ELSE m.mtx
    IN  Outcome(at(m, row, col).kind, written)

\* at(row, col) = v through the reference the non-const at() returns: the
\* outcome of at() and the storage after the statement.
at_assign(m, row, col, v) ==
    IF at(m, row, col).kind = "ok"
    THEN Outcome("ok", [m.mtx EXCEPT ![row * m.cols + col] = v])
    ELSE Outcome(at(m, row, col).kind, m.mtx)

----------------------------------------------------------------------------
\* trace()

\* The loop of trace() stepping by _Cols instead of _Cols + 1.
RECURSIVE trace_loop_column(_, _, _)
trace_loop_column(m, i, result) ==
    IF i < m.rows
    THEN trace_loop_column(m, i + 1, result + m.mtx[i * m.cols])
    ELSE result

\* for (i = 0; i < _Rows; ++i) result += mtx[i*(_Cols + 1)];
RECURSIVE trace_loop(_, _, _)
trace_loop(m, i, result) ==
    IF i < m.rows
    THEN trace_loop(m, i + 1, result + m.mtx[i * (m.cols + 1)])
    ELSE result

\* trace() refusing only the matrices with more rows than columns.
trace_tall_only(m) ==
    IF m.rows > m.cols
    THEN Outcome("logic_error", 0)
    ELSE Outcome("ok", trace_loop(m, 0, 0))

trace(m) ==
    IF m.rows # m.cols
    THEN Outcome("logic_error", 0)
    ELSE Outcome("ok", trace_loop(m, 0, 0))

----------------------------------------------------------------------------
\* submatrix(_row_index, _col_index)

\* The loops of submatrix() with col_erased not reset at the start of a row.
RECURSIVE submatrix_loop_sticky(_, _, _, _, _, _, _, _)
submatrix_loop_sticky(m, row_index, col_index, i, j, row_erased, col_erased, sub) ==
    IF ~(i < m.rows - 1) THEN Outcome("ok", sub)
    ELSE IF ~(j < m.cols - 1)
    THEN submatrix_loop_sticky(m, row_index, col_index, i + 1, 0, row_erased,
                               col_erased, sub)
    ELSE LET re == IF i = row_index THEN 1 ELSE row_erased
             ce == IF j = col_index THEN 1 ELSE col_erased
             src == at(m, i + re, j + ce)
             tgt == at(sub, i, j)
         IN  IF src.kind # "ok" \/ tgt.kind # "ok"
             THEN Outcome("terminate", sub)
             ELSE submatrix_loop_sticky(m, row_index, col_index, i, j + 1, re, ce,
                      [sub EXCEPT !.mtx[i * sub.cols + j] = src.val])

\* The loops of submatrix() with the outer one running to _Rows, not
\* _Rows - 1.
RECURSIVE submatrix_loop_all_rows(_, _, _, _, _, _, _, _)
submatrix_loop_all_rows(m, row_index, col_index, i, j, row_erased, col_erased, sub) ==
    IF ~(i < m.rows) THEN Outcome("ok", sub)
    ELSE IF ~(j < m.cols - 1)
    THEN submatrix_loop_all_rows(m, row_index, col_index, i + 1, 0,
                                 row_erased, 0, sub)
    ELSE LET re == IF i = row_index THEN 1 ELSE row_erased
             ce == IF j = col_index THEN 1 ELSE col_erased
             src == at(m, i + re, j + ce)
             tgt == at(sub, i, j)
         IN  IF src.kind # "ok" \/ tgt.kind # "ok"
             THEN Outcome("terminate", sub)
             ELSE submatrix_loop_all_rows(m, row_index, col_index, i, j + 1,
                      re, ce, [sub EXCEPT !.mtx[i * sub.cols + j] = src.val])

\* The two nested loops, from position (i, j) on.  A failing at() inside the
\* noexcept function ends the program ("terminate").
RECURSIVE submatrix_loop(_, _, _, _, _, _, _, _)
submatrix_loop(m, row_index, col_index, i, j, row_erased, col_erased, sub) ==
    IF ~(i < m.rows - 1) THEN Outcome("ok", sub)
    ELSE IF ~(j < m.cols - 1)
    THEN submatrix_loop(m, row_index, col_index, i + 1, 0, row_erased, 0, sub)
    ELSE LET re == IF i = row_index THEN 1 ELSE row_erased
             ce == IF j = col_index THEN 1 ELSE col_erased
             src == at(m, i + re, j + ce)
             tgt == at(sub, i, j)
         IN  IF src.kind # "ok" \/ tgt.kind # "ok"
             THEN Outcome("terminate", sub)
             ELSE submatrix_loop(m, row_index, col_index, i, j + 1, re, ce,
                      [sub EXCEPT !.mtx[i * sub.cols + j] = src.val])

submatrix(m, row_index, col_index) ==
    submatrix_loop(m, row_index, col_index, 0, 0, 0, 0,
                   DefaultMatrix(m.rows - 1, m.cols - 1))

----------------------------------------------------------------------------
\* operator*

\* Whether operator()(i, j) of m indexes outside m's storage.
outside_storage(m, i, j) == ~(i * m.cols + j < m.rows * m.cols)

\* operator()(i, j): mtx[i*_Cols + j], unchecked.  Outside the storage the
\* behaviour is undefined; g is what the read yields then.
unchecked(m, i, j, g) ==
    IF outside_storage(m, i, j) THEN g ELSE m.mtx[i * m.cols + j]

\* The three nested loops, from position (i, j, k) on.
RECURSIVE operator_mul_loop(_, _, _, _, _, _, _)
operator_mul_loop(a, b, g, i, j, k, product) ==
    IF ~(i < a.rows) THEN product
    ELSE IF ~(j < b.cols) THEN operator_mul_loop(a, b, g, i + 1, 0, 0, product)
    ELSE IF ~(k < a.cols) THEN operator_mul_loop(a, b, g, i, j + 1, 0, product)
    ELSE operator_mul_loop(a, b, g, i, j, k + 1,
             [product EXCEPT !.mtx[i * product.cols + j] =
                  @ + unchecked(a, i, j, g) * unchecked(b, i, j, g)])

\* a * b, for any _Second_Rows: the template does not relate it to _Cols.
operator_mul(a, b, g) ==
    operator_mul_loop(a, b, g, 0, 0, 0, DefaultMatrix(a.rows, b.cols))

\* Whether a * b reads outside the storage of a or of b.
operator_mul_undefined(a, b) ==
    \E i \in 0..(a.rows - 1), j \in 0..(b.cols - 1) :
        a.cols >= 1 /\ (outside_storage(a, i, j) \/ outside_storage(b, i, j))

----------------------------------------------------------------------------
\* make_identity_matrix

\* make_identity_matrix<_Ty, n, n>().  Line 688, "fixed_matrix<...>
\* identity_matrix();", declares a function, not an object, so the subscript
\* at line 691 and the return at line 693 are ill-formed: no instantiation
\* of the template compiles and the call yields no matrix.
make_identity_matrix(n) == Outcome("ill_formed", 0)

----------------------------------------------------------------------------
\* Constructors from a nested source.  A nested source is a sequence of rows,
\* each a sequence of values (both indexed from 1, as Sequences are).

\* The storage of an object whose constructor has not run.
RawStorage(r, c) == [k \in 0..(r * c - 1) |-> Unwritten]

\* _init_list.size() != _Rows || _init_list.begin()->size() != _Cols.  On an
\* empty list begin() is end() and reading its size is undefined: g then.
init_list_mismatch(r, c, il, g) ==
    Len(il) # r \/ (IF Len(il) >= 1 THEN Len(il[1]) ELSE g) # c

\* std::copy that leaves out the first value of el.
RECURSIVE copy_after_first(_, _, _, _, _)
copy_after_first(arr, n, el, k, it) ==
    IF k > Len(el) THEN arr
    ELSE copy_after_first(
             IF k > 1 /\ it + k - 1 < n THEN [arr EXCEPT ![it + k - 1] = el[k]]
             ELSE arr,
             n, el, k + 1, it)

\* std::copy(el.begin(), el.end(), it) from the el's k-th value on; n is the
\* size of the storage, and a write at or past n is outside it.
RECURSIVE copy(_, _, _, _, _)
copy(arr, n, el, k, it) ==
    IF k > Len(el) THEN arr
    ELSE copy(IF it + k - 1 < n THEN [arr EXCEPT ![it + k - 1] = el[k]] ELSE arr,
              n, el, k + 1, it)

\* The loop of the initializer-list constructor with std::advance(it, _Rows).
RECURSIVE ctor_il_loop_by_rows(_, _, _, _, _, _)
ctor_il_loop_by_rows(r, c, il, row, it, arr) ==
    IF row > Len(il) THEN arr
    ELSE ctor_il_loop_by_rows(r, c, il, row + 1, it + r,
                              copy(arr, r * c, il[row], 1, it))

\* for (el : _init_list) { std::copy(el.begin(), el.end(), it);
\*                         std::advance(it, _Cols); }
RECURSIVE ctor_il_loop(_, _, _, _, _, _)
ctor_il_loop(r, c, il, row, it, arr) ==
    IF row > Len(il) THEN arr
    ELSE ctor_il_loop(r, c, il, row + 1, it + c, copy(arr, r * c, il[row], 1, it))

\* The initializer-list constructor with && for || in its check.
ctor_il_both_wrong(r, c, il, raw, g) ==
    IF Len(il) # r /\ (IF Len(il) >= 1 THEN Len(il[1]) ELSE g) # c
    THEN Outcome("invalid_argument", raw)
    ELSE Outcome("ok", ctor_il_loop(r, c, il, 1, 0, raw))

\* fixed_matrix(std::initializer_list<std::initializer_list<value_type>>):
\* the outcome and the storage; mtx is not value-initialised first.
ctor_il(r, c, il, raw, g) ==
    IF init_list_mismatch(r, c, il, g)
    THEN Outcome("invalid_argument", raw)
    ELSE Outcome("ok", ctor_il_loop(r, c, il, 1, 0, raw))

\* Whether the constructor reads the size of a row that does not exist or
\* copies a row past the end of the storage.
ctor_il_undefined(r, c, il) ==
    \/ Len(il) = 0 /\ r = 0
    \/ /\ Len(il) = r /\ Len(il) >= 1 /\ Len(il[1]) = c
       /\ \E row \in 1..Len(il) : (row - 1) * c + Len(il[row]) > r * c

\* _c_arr_2d[i][j]; outside the caller's array the read is undefined: g then.
c_arr_read(arr, i, j, g) ==
    IF i < Len(arr) /\ j < Len(arr[i + 1]) THEN arr[i + 1][j + 1] ELSE g

\* for (i < _Rows) for (j < _Cols) mtx[i*_Cols + j] = _c_arr_2d[i][j];
RECURSIVE ctor_c_array_loop(_, _, _, _, _, _, _)
ctor_c_array_loop(r, c, arr, g, i, j, storage) ==
    IF ~(i < r) THEN storage
    ELSE IF ~(j < c) THEN ctor_c_array_loop(r, c, arr, g, i + 1, 0, storage)
    ELSE ctor_c_array_loop(r, c, arr, g, i, j + 1,
             [storage EXCEPT ![i * c + j] = c_arr_read(arr, i, j, g)])

\* explicit fixed_matrix(value_type** _c_arr_2d) : mtx() { ... }
ctor_c_array(r, c, arr, g) ==
    ctor_c_array_loop(r, c, arr, g, 0, 0, DefaultMatrix(r, c).mtx)

----------------------------------------------------------------------------
\* Capacity.

\* rows()
rows(m) == m.rows

\* columns() returning _Rows.
columns_as_rows(m) == m.rows

\* columns()
columns(m) == m.cols

\* size(): mtx.size()
size(m) == Cardinality(DOMAIN m.mtx)

\* empty(): mtx.empty()
empty(m) == Cardinality(DOMAIN m.mtx) = 0

----------------------------------------------------------------------------
\* fill, swap, copy.

\* std::array::fill leaving the last element as it was.
RECURSIVE array_fill_short(_, _, _, _)
array_fill_short(arr, n, k, v) ==
    IF k < n - 1 THEN array_fill_short([arr EXCEPT ![k] = v], n, k + 1, v) ELSE arr

\* std::array<_Ty, n>::fill(v), from element k on.
RECURSIVE array_fill(_, _, _, _)
array_fill(arr, n, k, v) ==
    IF k < n THEN array_fill([arr EXCEPT ![k] = v], n, k + 1, v) ELSE arr

\* fill(_val)
fill(m, v) == [m EXCEPT !.mtx = array_fill(m.mtx, m.rows * m.cols, 0, v)]

\* explicit fixed_matrix(const value_type& _val) : mtx() { fill(_val); }
ctor_fill(r, c, v) == fill(DefaultMatrix(r, c), v)

\* std::array::swap that assigns one way only (y is left as it was).
RECURSIVE array_swap_one_way(_, _, _, _)
array_swap_one_way(x, y, k, n) ==
    IF k < n
    THEN array_swap_one_way([x EXCEPT ![k] = y[k]], y, k + 1, n)
    ELSE <<x, y>>

\* std::array<_Ty, n>::swap: the elements exchanged one by one, from element
\* k on; the result is <<x, y>> after the call.
RECURSIVE array_swap(_, _, _, _)
array_swap(x, y, k, n) ==
    IF k < n
    THEN array_swap([x EXCEPT ![k] = y[k]], [y EXCEPT ![k] = x[k]], k + 1, n)
    ELSE <<x, y>>

\* a.swap(b) for two distinct objects: <<a, b>> after the call.
swap(a, b) ==
    LET p == array_swap(a.mtx, b.mtx, 0, a.rows * a.cols)
    IN  <<[a EXCEPT !.mtx = p[1]], [b EXCEPT !.mtx = p[2]]>>

\* a.swap(a): every element is exchanged with itself; the storage is what the
\* last assignment of each exchange leaves.
swap_self(a) ==
    [a EXCEPT !.mtx = array_swap(a.mtx, a.mtx, 0, a.rows * a.cols)[2]]

\* static swap(lhs, rhs) { lhs.swap(rhs); }
static_swap(lhs, rhs) == swap(lhs, rhs)

\* fixed_matrix(const fixed_matrix& _other) : mtx(_other.mtx) {}
ctor_copy(m) ==
    Matrix(m.rows, m.cols, [k \in 0..(m.rows * m.cols - 1) |-> m.mtx[k]])

\* Copy assignment that swaps with the source itself, not with a copy of it.
operator_assign_no_copy(this, oth, same) ==
    IF ~same THEN <<swap(oth, this)[2], swap(oth, this)[1]>> ELSE <<this, oth>>

\* operator=(const fixed_matrix& _other): <<*this, _other>> after the call;
\* same tells whether this == &_other.
operator_assign(this, oth, same) ==
    IF ~same THEN <<swap(ctor_copy(oth), this)[2], oth>> ELSE <<this, oth>>

----------------------------------------------------------------------------
\* operator+=, operator-=, operator+, operator-

\* The loop of operator+= that skips element 0.
RECURSIVE plus_assign_loop_from_one(_, _, _, _)
plus_assign_loop_from_one(arr, oth, k, n) ==
    IF k < n
    THEN plus_assign_loop_from_one(
             IF k = 0 THEN arr ELSE [arr EXCEPT ![k] = @ + oth[k]], oth, k + 1, n)
    ELSE arr

\* for (it = mtx.begin(), it_other = ...; it < mtx.end(); ++it, ++it_other)
\*     *it += *it_other;
RECURSIVE plus_assign_loop(_, _, _, _)
plus_assign_loop(arr, oth, k, n) ==
    IF k < n
    THEN plus_assign_loop([arr EXCEPT ![k] = @ + oth[k]], oth, k + 1, n)
    ELSE arr

\* The loop of operator-= adding instead of subtracting.
RECURSIVE minus_assign_loop_adding(_, _, _, _)
minus_assign_loop_adding(arr, oth, k, n) ==
    IF k < n
    THEN minus_assign_loop_adding([arr EXCEPT ![k] = @ + oth[k]], oth, k + 1, n)
    ELSE arr

\* for (...) *it -= *it_other;
RECURSIVE minus_assign_loop(_, _, _, _)
minus_assign_loop(arr, oth, k, n) ==
    IF k < n
    THEN minus_assign_loop([arr EXCEPT ![k] = @ - oth[k]], oth, k + 1, n)
    ELSE arr

\* a += b and a -= b for two distinct objects: a after the call.
operator_plus_assign(a, b) ==
    [a EXCEPT !.mtx = plus_assign_loop(a.mtx, b.mtx, 0, a.rows * a.cols)]
operator_minus_assign(a, b) ==
    [a EXCEPT !.mtx = minus_assign_loop(a.mtx, b.mtx, 0, a.rows * a.cols)]

\* a + b and a - b: a copy of a, then += or -=.
operator_plus(a, b) == operator_plus_assign(ctor_copy(a), b)
operator_minus(a, b) == operator_minus_assign(ctor_copy(a), b)

----------------------------------------------------------------------------
\* operator+= and operator-= on a value_type whose += or -= can throw, and
\* with both operands one object; move assignment.

\* The loop of operator+= where *it += *it_other throws at element bad and
\* leaves that element as it was: the outcome and the storage then.
RECURSIVE plus_assign_loop_throwing(_, _, _, _, _)
plus_assign_loop_throwing(arr, oth, k, n, bad) ==
    IF ~(k < n) THEN Outcome("ok", arr)
    ELSE IF k = bad THEN Outcome("exception", arr)
    ELSE plus_assign_loop_throwing([arr EXCEPT ![k] = @ + oth[k]], oth,
                                   k + 1, n, bad)

\* The loop of operator-= where *it -= *it_other throws at element bad.
RECURSIVE minus_assign_loop_throwing(_, _, _, _, _)
minus_assign_loop_throwing(arr, oth, k, n, bad) ==
    IF ~(k < n) THEN Outcome("ok", arr)
    ELSE IF k = bad THEN Outcome("exception", arr)
    ELSE minus_assign_loop_throwing([arr EXCEPT ![k] = @ - oth[k]], oth,
                                    k + 1, n, bad)

\* The loop of a += a with it_other never advanced.
RECURSIVE plus_assign_loop_self_first(_, _, _)
plus_assign_loop_self_first(arr, k, n) ==
    IF k < n
    THEN plus_assign_loop_self_first([arr EXCEPT ![k] = @ + arr[0]], k + 1, n)
    ELSE arr

\* The loop of a += a: it and it_other walk one storage, so *it_other is read
\* from the storage as the loop has left it so far.
RECURSIVE plus_assign_loop_self(_, _, _)
plus_assign_loop_self(arr, k, n) ==
    IF k < n
    THEN plus_assign_loop_self([arr EXCEPT ![k] = @ + arr[k]], k + 1, n)
    ELSE arr

\* The loop of a -= a.
RECURSIVE minus_assign_loop_self(_, _, _)
minus_assign_loop_self(arr, k, n) ==
    IF k < n
    THEN minus_assign_loop_self([arr EXCEPT ![k] = @ - arr[k]], k + 1, n)
    ELSE arr

\* a += a and a -= a: a after the call.
operator_plus_assign_self(a) ==
    [a EXCEPT !.mtx = plus_assign_loop_self(a.mtx, 0, a.rows * a.cols)]
operator_minus_assign_self(a) ==
    [a EXCEPT !.mtx = minus_assign_loop_self(a.mtx, 0, a.rows * a.cols)]

\* a + a and a - a: tmp is a copy of a, a distinct object, then tmp += a or
\* tmp -= a.
operator_plus_self(a) == operator_plus_assign(ctor_copy(a), a)
operator_minus_self(a) == operator_minus_assign(ctor_copy(a), a)

\* Move assignment that copies: _other is left as it was.
operator_move_assign_copying(this, oth, same) ==
    IF ~same THEN <<ctor_copy(oth), oth>> ELSE <<this, oth>>

\* operator=(fixed_matrix&& _other) { if (this != &_other) swap(*this, _other); }
\* <<*this, _other>> after the call; same tells whether this == &_other.
operator_move_assign(this, oth, same) ==
    IF ~same THEN static_swap(this, oth) ELSE <<this, oth>>

----------------------------------------------------------------------------
\* operator==, operator!=

\* std::equal that leaves the last pair of elements uncompared.
RECURSIVE std_equal_short(_, _, _, _)
std_equal_short(x, y, k, n) ==
    IF ~(k < n - 1) THEN TRUE
    ELSE IF x[k] # y[k] THEN FALSE
    ELSE std_equal_short(x, y, k + 1, n)

\* std::equal(first1, last1, first2): stops at the first mismatch.
RECURSIVE std_equal(_, _, _, _)
std_equal(x, y, k, n) ==
    IF ~(k < n) THEN TRUE
    ELSE IF x[k] # y[k] THEN FALSE
    ELSE std_equal(x, y, k + 1, n)

\* a == b; same tells whether this == &_other.
operator_eq(a, b, same) ==
    IF ~same THEN std_equal(a.mtx, b.mtx, 0, a.rows * a.cols) ELSE TRUE

\* a != b
operator_ne(a, b, same) == ~operator_eq(a, b, same)

----------------------------------------------------------------------------
\* operator(), operator[] and its proxy, iterators.  The calls are made with
\* row < _Rows and col < _Cols (pos < size()), where the index is inside the
\* storage.

\* reference operator()(_row_index, _col_index), assigned v: the storage after.
call_assign(m, row, col, v) == [m.mtx EXCEPT ![row * m.cols + col] = v]

\* proxy_row_array(_row_array, _row_index, _cols).  row_array is a reference
\* to the storage of the matrix: the proxy holds the other two, and its
\* operator[] is given the storage the reference leads to.
proxy_row_array(row_index, cols) == [row_index |-> row_index, cols |-> cols]

\* proxy_row_array::operator[](_col_index): row_array[row_index*cols + _col_index]
proxy_subscript(row_array, proxy, col_index) ==
    row_array[proxy.row_index * proxy.cols + col_index]

\* The same, assigned v: the storage after.
proxy_subscript_assign(row_array, proxy, col_index, v) ==
    [row_array EXCEPT ![proxy.row_index * proxy.cols + col_index] = v]

\* proxy_row_array operator[](_row_index) of a non-const object.
operator_subscript(m, row_index) ==
    Outcome("ok", proxy_row_array(row_index, m.cols))

\* constexpr proxy_row_array operator[](_row_index) const: mtx is const in a
\* const member function and the proxy's constructor takes a reference to a
\* non-const array, so the return statement is ill-formed; the call does not
\* compile and yields no proxy.
operator_subscript_const(m, row_index) == Outcome("ill_formed", 0)

\* *(m.begin() + pos)
iterator_deref(m, pos) == m.mtx[pos]

\* *(m.begin() + pos) = v: the storage after.
iterator_assign(m, pos, v) == [m.mtx EXCEPT ![pos] = v]

----------------------------------------------------------------------------
\* write()

\* The text operator<< gives a decimal digit.
Digit(d) ==
    CASE d = 0 -> "0" [] d = 1 -> "1" [] d = 2 -> "2" [] d = 3 -> "3"
      [] d = 4 -> "4" [] d = 5 -> "5" [] d = 6 -> "6" [] d = 7 -> "7"
      [] d = 8 -> "8" [] d = 9 -> "9"

\* The decimal digits of n >= 0, the most significant first.
RECURSIVE Digits(_)
Digits(n) == IF n < 10 THEN Digit(n) ELSE Digits(n \div 10) \o Digit(n % 10)

\* _os << el for an int el.
insert_int(el) == IF el < 0 THEN "-" \o Digits(0 - el) ELSE Digits(el)

\* The loop of write() breaking the line before the element that begins a
\* row, not after the one that ends it.
RECURSIVE write_loop_break_before(_, _, _, _, _)
write_loop_break_before(m, delim, pos, count, os) ==
    IF pos < m.rows * m.cols
    THEN write_loop_break_before(m, delim, pos + 1, count + 1,
             IF count % m.cols = 0
             THEN os \o "\n" \o insert_int(m.mtx[pos]) \o delim
             ELSE os \o insert_int(m.mtx[pos]) \o delim)
    ELSE os

\* The loop of write() breaking the line between rows only, not after the
\* last one.
RECURSIVE write_loop_break_between(_, _, _, _, _)
write_loop_break_between(m, delim, pos, count, os) ==
    IF pos < m.rows * m.cols
    THEN write_loop_break_between(m, delim, pos + 1, count + 1,
             IF (count + 1) % m.cols = 0 /\ pos + 1 < m.rows * m.cols
             THEN os \o insert_int(m.mtx[pos]) \o delim \o "\n"
             ELSE os \o insert_int(m.mtx[pos]) \o delim)
    ELSE os

\* for (const auto& el : mtx) { _os << el << _delim; ++count;
\*     if (!(count % _Cols)) _os << '\n'; }
\* from element pos on; os is the text sent so far.
RECURSIVE write_loop(_, _, _, _, _)
write_loop(m, delim, pos, count, os) ==
    IF pos < m.rows * m.cols
    THEN write_loop(m, delim, pos + 1, count + 1,
             IF (count + 1) % m.cols = 0
             THEN os \o insert_int(m.mtx[pos]) \o delim \o "\n"
             ELSE os \o insert_int(m.mtx[pos]) \o delim)
    ELSE os

\* write(_os, _delim) on an empty stream: the text in the stream after.
write(m, delim) == write_loop(m, delim, 0, 0, "")

\* Whether write() evaluates count % _Cols with _Cols = 0, which is undefined:
\* the remainder is evaluated once for every element of mtx.
write_undefined(m) == \E pos \in 0..(m.rows * m.cols - 1) : m.cols = 0

----------------------------------------------------------------------------
\* The object under the const member functions: Spec.

\* The shapes of the matrices over Values the calls are made on.
Shapes ==
    {shape \in (0..MaxDim) \X (0..MaxDim) : shape[1] * shape[2] <= MaxSize}

\* The object after construction from a nested initializer list.
Init ==
    /\ \E m \in UNION {MatricesOf(shape[1], shape[2]) : shape \in Shapes}
                \cup {Example3x3, Example2x3} :
          /\ Rows = m.rows
          /\ Cols = m.cols
          /\ mtx = m.mtx
    /\ other = DefaultMatrix(0, 0)
    /\ op = "none"
    /\ args = <<>>
    /\ ret = Outcome("ok", 0)

\* m.at(row, col)
At(row, col) ==
    /\ op' = "at"
    /\ args' = [row |-> row, col |-> col]
    /\ ret' = at(This, row, col)
    /\ UNCHANGED <<Rows, Cols, mtx, other>>

\* m.at(row, col) = v, on the matrices over Values.
AtAssign(row, col, v) ==
    /\ \A k \in DOMAIN mtx : mtx[k] \in Values
    /\ op' = "at_assign"
    /\ args' = [row |-> row, col |-> col, v |-> v]
    /\ ret' = Outcome(at_assign(This, row, col, v).kind, v)
    /\ mtx' = at_assign(This, row, col, v).val
    /\ UNCHANGED <<Rows, Cols, other>>

\* m.trace()
Trace ==
    /\ op' = "trace"
    /\ args' = <<>>
    /\ ret' = trace(This)
    /\ UNCHANGED <<Rows, Cols, mtx, other>>

\* m.submatrix(row, col); fixed_matrix<_Ty, _Rows - 1, _Cols - 1> exists only
\* for _Rows >= 1 and _Cols >= 1.
Submatrix(row, col) ==
    /\ Rows >= 1 /\ Cols >= 1
    /\ op' = "submatrix"
    /\ args' = [row |-> row, col |-> col]
    /\ ret' = submatrix(This, row, col)
    /\ UNCHANGED <<Rows, Cols, mtx, other>>

Next ==
    \/ \E row \in 0..Rows, col \in 0..Cols : At(row, col)
    \/ \E row \in 0..Rows, col \in 0..Cols, v \in Values : AtAssign(row, col, v)
    \/ Trace
    \/ \E row \in 0..Rows, col \in 0..Cols : Submatrix(row, col)

Spec == Init /\ [][Next]_vars

----------------------------------------------------------------------------
\* Properties of Spec.

\* 1 when the walk is at or past the removed index, else 0.
Skip(i, removed) == IF i >= removed THEN 1 ELSE 0

\* The sum of the elements (i, i) for i in [0, n).
RECURSIVE DiagonalSum(_, _)
DiagonalSum(m, n) ==
    IF n = 0 THEN 0 ELSE DiagonalSum(m, n - 1) + at(m, n - 1, n - 1).val

\* C4: at(row, col) fails with the out-of-range error exactly when row >= R or
\* col >= C, and for row < R and col < C it returns, without error, the
\* element at flat index row*C + col.
C4_AtChecked ==
    op = "at" =>
        /\ (ret.kind = "out_of_range") <=> (args.row >= Rows \/ args.col >= Cols)
        /\ (args.row < Rows /\ args.col < Cols)
               => ret = Outcome("ok", mtx[args.row * Cols + args.col])

\* at(1, 2) on [[1,2,3],[4,5,6]] has returned 6, the element at flat index 5.
C4_Witness ==
    /\ op = "at" /\ This = Example2x3
    /\ args = [row |-> 1, col |-> 2]
    /\ ret = Outcome("ok", 6)

\* C5: whenever at(row, col) fails with the out-of-range error, every element
\* of the matrix is the same after the call as before it.
C5_AtStrongGuarantee ==
    [][(op' \in {"at", "at_assign"} /\ ret'.kind = "out_of_range")
          => mtx' = mtx]_vars

\* at(0, C) = 1 has failed on a matrix of two rows whose element (1, 0), at
\* flat index C, is 0.
C5_Witness ==
    /\ op = "at_assign" /\ ret.kind = "out_of_range"
    /\ Rows = 2 /\ Cols >= 1
    /\ args = [row |-> 0, col |-> Cols, v |-> 1]
    /\ mtx[Cols] = 0

\* C6: submatrix(r, c) with r < R and c < C returns the (R-1) x (C-1) matrix
\* whose element (i, j) is the source element (i + [i >= r], j + [j >= c]);
\* submatrix(1, 1) of [[1,2,3],[4,5,6],[7,8,9]] is [[1,3],[7,9]].
C6_Submatrix ==
    (op = "submatrix" /\ args.row < Rows /\ args.col < Cols) =>
        /\ ret.kind = "ok"
        /\ ret.val.rows = Rows - 1
        /\ ret.val.cols = Cols - 1
        /\ DOMAIN ret.val.mtx = 0..((Rows - 1) * (Cols - 1) - 1)
        /\ \A i \in 0..(Rows - 2), j \in 0..(Cols - 2) :
               /\ at(ret.val, i, j).kind = "ok"
               /\ at(ret.val, i, j) =
                      at(This, i + Skip(i, args.row), j + Skip(j, args.col))
        /\ (This = Example3x3 /\ args = [row |-> 1, col |-> 1])
               => ret.val = FromRows(2, 2, <<<<1, 3>>, <<7, 9>>>>)

\* submatrix(1, 1) of the 3 x 3 example has returned [[1,3],[7,9]].
C6_Witness ==
    /\ op = "submatrix" /\ This = Example3x3
    /\ args = [row |-> 1, col |-> 1]
    /\ ret = Outcome("ok", FromRows(2, 2, <<<<1, 3>>, <<7, 9>>>>))

\* C25: for R, C >= 1 and any (r, c), submatrix(r, c) never makes an at() call
\* that fails; when r >= R-1 the result's rows are the source rows 0..R-2 (no
\* row offset), and when c >= C-1 its columns are the source columns 0..C-2.
C25_SubmatrixAnyArgs ==
    op = "submatrix" =>
        /\ ret.kind = "ok"
        /\ ret.val.rows = Rows - 1 /\ ret.val.cols = Cols - 1
        /\ args.row >= Rows - 1 =>
               \A i \in 0..(Rows - 2), j \in 0..(Cols - 2) :
                   at(ret.val, i, j) =
                       Outcome("ok", mtx[i * Cols + j + Skip(j, args.col)])
        /\ args.col >= Cols - 1 =>
               \A i \in 0..(Rows - 2), j \in 0..(Cols - 2) :
                   at(ret.val, i, j) =
                       Outcome("ok", mtx[(i + Skip(i, args.row)) * Cols + j])
        /\ (args.row >= Rows - 1 /\ args.col >= Cols - 1) =>
               \A i \in 0..(Rows - 2), j \in 0..(Cols - 2) :
                   at(ret.val, i, j) = Outcome("ok", mtx[i * Cols + j])

\* submatrix(3, 3) of the 3 x 3 example, both arguments out of range, has
\* returned [[1,2],[4,5]].
C25_Witness ==
    /\ op = "submatrix" /\ This = Example3x3
    /\ args = [row |-> 3, col |-> 3]
    /\ ret = Outcome("ok", FromRows(2, 2, <<<<1, 2>>, <<4, 5>>>>))

\* C7: on a square matrix trace() returns the sum of the diagonal elements
\* (i, i), i in [0, N), and leaves the matrix unchanged.
C7_TraceSquare ==
    [][(op' = "trace" /\ Rows = Cols)
          => /\ ret' = Outcome("ok", DiagonalSum(This, Rows))
             /\ mtx' = mtx]_vars

\* trace() of a 2 x 2 matrix with the off-diagonal elements set has returned
\* the sum of the two diagonal elements.
C7_Witness ==
    /\ op = "trace" /\ Rows = 2 /\ Cols = 2
    /\ mtx[0] = 1 /\ mtx[1] = 1 /\ mtx[2] = 1 /\ mtx[3] = 0
    /\ ret = Outcome("ok", 1)

\* C8: trace() on a matrix with R # C fails with the non-square error, returns
\* no value, and leaves every element unchanged.
C8_TraceNonSquare ==
    [][(op' = "trace" /\ Rows # Cols)
          => /\ ret'.kind = "logic_error"
             /\ mtx' = mtx]_vars

\* trace() has failed on a matrix with fewer rows than columns.
C8_Witness ==
    /\ op = "trace" /\ Rows >= 1 /\ Rows < Cols
    /\ ret.kind = "logic_error"

----------------------------------------------------------------------------
\* Multiplication: SpecMul.

\* Both operands after construction, of any two shapes.
InitMul ==
    /\ \E a \in UNION {MatricesOf(r, c) : r \in 0..MaxMulDim, c \in 0..MaxMulDim}
                \cup {Example2x3},
          b \in UNION {MatricesOf(r, c) : r \in 0..MaxMulDim, c \in 0..MaxMulDim}
                \cup {Example3x2} :
          /\ Rows = a.rows
          /\ Cols = a.cols
          /\ mtx = a.mtx
          /\ other = b
    /\ op = "none"
    /\ args = <<>>
    /\ ret = Outcome("ok", 0)

\* m * other.  Reads outside the storage yield some value or end the program.
Mul ==
    /\ op' = "mul"
    /\ args' = <<>>
    /\ \E g \in Indeterminate :
          \/ ret' = Outcome("ok", operator_mul(This, other, g))
          \/ /\ operator_mul_undefined(This, other)
             /\ ret' = Outcome("crash", 0)
    /\ UNCHANGED <<Rows, Cols, mtx, other>>

\* make_identity_matrix<int, n, n>()
MakeIdentity(n) ==
    /\ op' = "make_identity_matrix"
    /\ args' = <<n>>
    /\ ret' = make_identity_matrix(n)
    /\ UNCHANGED <<Rows, Cols, mtx, other>>

NextMul ==
    \/ Mul
    \/ \E n \in 0..MaxMulDim : MakeIdentity(n)

SpecMul == InitMul /\ [][NextMul]_vars

----------------------------------------------------------------------------
\* Properties of SpecMul.

\* The sum over k in [0, n) of a(i, k) * b(k, j).
RECURSIVE DotProduct(_, _, _, _, _)
DotProduct(a, b, i, j, n) ==
    IF n = 0 THEN 0
    ELSE DotProduct(a, b, i, j, n - 1) + at(a, i, n - 1).val * at(b, n - 1, j).val

\* The n x n matrix with 1 on the diagonal and 0 elsewhere.
Identity(n) ==
    Matrix(n, n, [k \in 0..(n * n - 1) |-> IF k \div n = k % n THEN 1 ELSE 0])

\* C1: for A of shape (R, K) and B of shape (K, C2) the product has shape
\* (R, C2) and its element (i, j) is the sum over k of A(i, k) * B(k, j);
\* [[1,2,3],[4,5,6]] times [[7,8],[9,10],[11,12]] is [[58,64],[139,154]].
C1_Product ==
    (op = "mul" /\ Cols = other.rows) =>
        /\ ret.kind = "ok"
        /\ ret.val.rows = Rows
        /\ ret.val.cols = other.cols
        /\ \A i \in 0..(Rows - 1), j \in 0..(other.cols - 1) :
               at(ret.val, i, j) = Outcome("ok", DotProduct(This, other, i, j, Cols))
        /\ (This = Example2x3 /\ other = Example3x2)
               => ret.val = FromRows(2, 2, <<<<58, 64>>, <<139, 154>>>>)

\* C2: a product is produced only when the left operand's column count
\* equals the right operand's row count.
C2_ShapesAgree ==
    op = "mul" => Cols = other.rows

\* C3: for every R x C matrix A and the C x C identity I, A * I == A.
C3_IdentityNeutral ==
    (op = "mul" /\ other = Identity(Cols)) => ret = Outcome("ok", This)

\* C15: make_identity_matrix<T, N, N>() produces the N x N matrix whose element
\* (i, j) is 1 when i = j and 0 otherwise.
C15_IdentityMade ==
    op = "make_identity_matrix" =>
        /\ ret.kind = "ok"
        /\ ret.val = Identity(args[1])

\* C22: for A of shape (R, K) and B of shape (K, C2) with R, K, C2 >= 1, every
\* access operator* makes on A is at a flat index in [0, R*K), every access on
\* B at one in [0, K*C2), every access on the product at one in [0, R*C2).
C22_MulIndexSafe ==
    (/\ op = "mul" /\ Cols = other.rows
     /\ Rows >= 1 /\ Cols >= 1 /\ other.cols >= 1) =>
        /\ ret.kind = "ok"
        /\ \A i \in 0..(Rows - 1), j \in 0..(other.cols - 1) :
               /\ ~outside_storage(This, i, j)
               /\ ~outside_storage(other, i, j)
               /\ ~outside_storage(ret.val, i, j)

----------------------------------------------------------------------------
\* Construction from a nested source: SpecCtor.

\* The value a source holds in row r, column c (from 0): no two positions of
\* a source hold the same value.
Entry(b, r, c) == 1 + b + 2 * (r * (MaxCtorDim + 2) + c)

\* The nested sources of up to MaxCtorDim + 1 rows of up to MaxCtorDim + 1
\* values each, rows of different lengths included.
Sources ==
    UNION {{[r \in 1..n |-> [c \in 1..len[r] |-> Entry(b, r - 1, c - 1)]] :
               len \in [1..n -> 0..(MaxCtorDim + 1)], b \in Values} :
           n \in 0..(MaxCtorDim + 1)}

\* Storage for an object of some shape, no constructor run yet.
InitCtor ==
    /\ Rows \in 0..MaxCtorDim
    /\ Cols \in 0..MaxCtorDim
    /\ mtx = RawStorage(Rows, Cols)
    /\ other = DefaultMatrix(0, 0)
    /\ op = "none"
    /\ args = <<>>
    /\ ret = Outcome("ok", 0)

\* fixed_matrix<int, Rows, Cols> m(il).  A copy past the end of the storage
\* writes outside the object or ends the program.
CtorInitList(il) ==
    /\ op = "none"
    /\ op' = "ctor_il"
    /\ args' = il
    /\ \E g \in Indeterminate :
          \/ /\ ret' = Outcome(ctor_il(Rows, Cols, il, mtx, g).kind, 0)
             /\ mtx' = ctor_il(Rows, Cols, il, mtx, g).val
          \/ /\ ctor_il_undefined(Rows, Cols, il)
             /\ ret' = Outcome("crash", 0)
             /\ mtx' = mtx
    /\ UNCHANGED <<Rows, Cols, other>>

\* fixed_matrix<int, Rows, Cols> m(arr), arr an int**.
CtorCArray(arr) ==
    /\ op = "none"
    /\ op' = "ctor_c_array"
    /\ args' = arr
    /\ \E g \in Indeterminate :
          /\ ret' = Outcome("ok", 0)
          /\ mtx' = ctor_c_array(Rows, Cols, arr, g)
    /\ UNCHANGED <<Rows, Cols, other>>

NextCtor ==
    \/ \E il \in Sources : CtorInitList(il)
    \/ \E arr \in Sources : CtorCArray(arr)

SpecCtor == InitCtor /\ [][NextCtor]_vars

----------------------------------------------------------------------------
\* Properties of SpecCtor.

\* Exactly r rows of exactly c values each.
ExactShape(src, r, c) ==
    Len(src) = r /\ \A row \in 1..Len(src) : Len(src[row]) = c

\* C9: the matrix constructed from a nested source of exactly R rows of
\* exactly C entries reads back, at every (row, col), the source's entry.
C9_ConstructionRoundTrip ==
    (op \in {"ctor_il", "ctor_c_array"} /\ ExactShape(args, Rows, Cols)) =>
        /\ Rows >= 1 => ret.kind = "ok"
        /\ ret.kind = "ok" =>
               \A row \in 0..(Rows - 1), col \in 0..(Cols - 1) :
                   at(This, row, col) = Outcome("ok", args[row + 1][col + 1])

\* A 2 x 1 matrix has been constructed from an initializer list of two rows
\* of one value each, and at(1, 0) reads the second row's value.
C9_Witness ==
    /\ op = "ctor_il" /\ ret.kind = "ok"
    /\ Rows = 2 /\ Cols = 1
    /\ args = <<<<Entry(0, 0, 0)>>, <<Entry(0, 1, 0)>>>>
    /\ at(This, 1, 0) = Outcome("ok", Entry(0, 1, 0))

\* C10: the initializer-list constructor throws std::invalid_argument if the
\* outer list's size is not R or the first inner list's size is not C, and
\* then no element of the storage has been written.
C10_CtorRejects ==
    (/\ op = "ctor_il"
     /\ \/ Len(args) # Rows
        \/ Len(args) >= 1 /\ Len(args[1]) # Cols) =>
        /\ ret.kind = "invalid_argument"
        /\ mtx = RawStorage(Rows, Cols)

\* The constructor has thrown on a list of the right number of rows whose
\* first row is too long.
C10_Witness ==
    /\ op = "ctor_il" /\ ret.kind = "invalid_argument"
    /\ Rows >= 1 /\ Len(args) = Rows /\ Len(args[1]) = Cols + 1

\* Whether the constructor has written inside the storage only, has assigned
\* every element, and has left the entries of each source row (those that
\* fit in a row of the matrix) from flat index r*C on.
RowsPlaced ==
    /\ ret.kind = "ok"
    /\ ~ctor_il_undefined(Rows, Cols, args)
    /\ DOMAIN mtx = 0..(Rows * Cols - 1)
    /\ \A k \in 0..(Rows * Cols - 1) : mtx[k] # Unwritten
    /\ \A r \in 0..(Rows - 1), j \in 0..(Cols - 1) :
          j < Len(args[r + 1]) => mtx[r * Cols + j] = args[r + 1][j + 1]

\* C23 as claimed: for every nested initializer list that passes the
\* dimension check (R rows, the first of size C), later rows longer or shorter
\* than C included, the constructor writes only to flat indices in [0, R*C),
\* assigns every element, and places source row r from flat index r*C on.
C23_AnyRowsPlaced ==
    (/\ op = "ctor_il" /\ Len(args) = Rows
     /\ Rows >= 1 /\ Len(args[1]) = Cols) => RowsPlaced

\* C23 as amended: the same for every nested initializer list of R >= 1 rows
\* of exactly C entries each.
C23_EqualRowsPlaced ==
    (op = "ctor_il" /\ Rows >= 1 /\ ExactShape(args, Rows, Cols)) => RowsPlaced

\* A 2 x 2 matrix has been constructed from two rows of two entries.
C23_Witness ==
    /\ op = "ctor_il" /\ Rows = 2 /\ Cols = 2
    /\ ExactShape(args, 2, 2)
    /\ mtx[2] = args[2][1] /\ mtx[3] = args[2][2]

----------------------------------------------------------------------------
\* Two objects a and b of one type fixed_matrix<int, Rows, Cols>: SpecPair.
\* a is (Rows, Cols, mtx), b is other.

PairShapes ==
    {shape \in (0..MaxPairDim) \X (0..MaxPairDim) :
        shape[1] * shape[2] <= MaxPairSize}

\* Whether every element of a and of b is in Values.
OverValues ==
    /\ \A k \in DOMAIN mtx : mtx[k] \in Values
    /\ \A k \in DOMAIN other.mtx : other.mtx[k] \in Values

\* Both objects after construction from nested initializer lists.
InitPair ==
    /\ \E shape \in PairShapes :
          \E a \in MatricesOf(shape[1], shape[2]),
             b \in MatricesOf(shape[1], shape[2]) :
              /\ Rows = a.rows
              /\ Cols = a.cols
              /\ mtx = a.mtx
              /\ other = b
    /\ op = "none"
    /\ args = <<>>
    /\ ret = Outcome("ok", 0)

\* The calls that change an object are made on objects over Values
\* (OverValues); the calls that change none are made on any.

\* a.rows()
QueryRows ==
    /\ op' = "rows"
    /\ args' = <<>>
    /\ ret' = Outcome("ok", rows(This))
    /\ UNCHANGED <<Rows, Cols, mtx, other>>

\* a.columns()
QueryColumns ==
    /\ op' = "columns"
    /\ args' = <<>>
    /\ ret' = Outcome("ok", columns(This))
    /\ UNCHANGED <<Rows, Cols, mtx, other>>

\* a.size()
QuerySize ==
    /\ op' = "size"
    /\ args' = <<>>
    /\ ret' = Outcome("ok", size(This))
    /\ UNCHANGED <<Rows, Cols, mtx, other>>

\* a.empty()
QueryEmpty ==
    /\ op' = "empty"
    /\ args' = <<>>
    /\ ret' = Outcome("ok", empty(This))
    /\ UNCHANGED <<Rows, Cols, mtx, other>>

\* a.fill(v)
Fill(v) ==
    /\ OverValues
    /\ op' = "fill"
    /\ args' = <<v>>
    /\ ret' = Outcome("ok", 0)
    /\ mtx' = fill(This, v).mtx
    /\ other' = other
    /\ UNCHANGED <<Rows, Cols>>

\* fixed_matrix<int, Rows, Cols> c(v)
CtorFill(v) ==
    /\ op' = "ctor_fill"
    /\ args' = <<v>>
    /\ ret' = Outcome("ok", ctor_fill(Rows, Cols, v))
    /\ UNCHANGED <<Rows, Cols, mtx, other>>

\* a.swap(b)
Swap ==
    /\ OverValues
    /\ op' = "swap"
    /\ args' = <<>>
    /\ ret' = Outcome("ok", 0)
    /\ mtx' = swap(This, other)[1].mtx
    /\ other' = swap(This, other)[2]
    /\ UNCHANGED <<Rows, Cols>>

\* fixed_matrix::swap(a, b)
StaticSwap ==
    /\ OverValues
    /\ op' = "static_swap"
    /\ args' = <<>>
    /\ ret' = Outcome("ok", 0)
    /\ mtx' = static_swap(This, other)[1].mtx
    /\ other' = static_swap(This, other)[2]
    /\ UNCHANGED <<Rows, Cols>>

\* a.swap(a)
SwapSelf ==
    /\ OverValues
    /\ op' = "swap_self"
    /\ args' = <<>>
    /\ ret' = Outcome("ok", 0)
    /\ mtx' = swap_self(This).mtx
    /\ other' = other
    /\ UNCHANGED <<Rows, Cols>>

\* fixed_matrix<int, Rows, Cols> c(a)
CtorCopy ==
    /\ op' = "ctor_copy"
    /\ args' = <<>>
    /\ ret' = Outcome("ok", ctor_copy(This))
    /\ UNCHANGED <<Rows, Cols, mtx, other>>

\* fixed_matrix<int, Rows, Cols> c(a); c.at(row, col) = v; the result is c.
CtorCopyAssign(row, col, v) ==
    /\ op' = "ctor_copy_assign"
    /\ args' = <<row, col, v>>
    /\ ret' = Outcome("ok", [ctor_copy(This) EXCEPT
                                !.mtx = at_assign(ctor_copy(This), row, col, v).val])
    /\ UNCHANGED <<Rows, Cols, mtx, other>>

\* b = a
CopyAssign ==
    /\ OverValues
    /\ op' = "copy_assign"
    /\ args' = <<>>
    /\ ret' = Outcome("ok", 0)
    /\ mtx' = operator_assign(other, This, FALSE)[2].mtx
    /\ other' = operator_assign(other, This, FALSE)[1]
    /\ UNCHANGED <<Rows, Cols>>

\* a = a
SelfAssign ==
    /\ OverValues
    /\ op' = "self_assign"
    /\ args' = <<>>
    /\ ret' = Outcome("ok", 0)
    /\ mtx' = operator_assign(This, This, TRUE)[1].mtx
    /\ other' = other
    /\ UNCHANGED <<Rows, Cols>>

\* a.at(row, col) = v
AssignA(row, col, v) ==
    /\ OverValues
    /\ op' = "assign_a"
    /\ args' = <<row, col, v>>
    /\ ret' = Outcome("ok", 0)
    /\ mtx' = at_assign(This, row, col, v).val
    /\ other' = other
    /\ UNCHANGED <<Rows, Cols>>

\* b.at(row, col) = v
AssignB(row, col, v) ==
    /\ OverValues
    /\ op' = "assign_b"
    /\ args' = <<row, col, v>>
    /\ ret' = Outcome("ok", 0)
    /\ mtx' = mtx
    /\ other' = [other EXCEPT !.mtx = at_assign(other, row, col, v).val]
    /\ UNCHANGED <<Rows, Cols>>

\* a += b
PlusAssign ==
    /\ OverValues
    /\ op' = "plus_assign"
    /\ args' = <<>>
    /\ ret' = Outcome("ok", 0)
    /\ mtx' = operator_plus_assign(This, other).mtx
    /\ other' = other
    /\ UNCHANGED <<Rows, Cols>>

\* a -= b
MinusAssign ==
    /\ OverValues
    /\ op' = "minus_assign"
    /\ args' = <<>>
    /\ ret' = Outcome("ok", 0)
    /\ mtx' = operator_minus_assign(This, other).mtx
    /\ other' = other
    /\ UNCHANGED <<Rows, Cols>>

\* a + b
Plus ==
    /\ op' = "plus"
    /\ args' = <<>>
    /\ ret' = Outcome("ok", operator_plus(This, other))
    /\ UNCHANGED <<Rows, Cols, mtx, other>>

\* a - b
Minus ==
    /\ op' = "minus"
    /\ args' = <<>>
    /\ ret' = Outcome("ok", operator_minus(This, other))
    /\ UNCHANGED <<Rows, Cols, mtx, other>>

\* a + b - b
PlusMinus ==
    /\ op' = "plus_minus"
    /\ args' = <<>>
    /\ ret' = Outcome("ok", operator_minus(operator_plus(This, other), other))
    /\ UNCHANGED <<Rows, Cols, mtx, other>>

\* a == b
Eq ==
    /\ op' = "eq"
    /\ args' = <<>>
    /\ ret' = Outcome("ok", operator_eq(This, other, FALSE))
    /\ UNCHANGED <<Rows, Cols, mtx, other>>

\* b == a
EqReversed ==
    /\ op' = "eq_reversed"
    /\ args' = <<>>
    /\ ret' = Outcome("ok", operator_eq(other, This, FALSE))
    /\ UNCHANGED <<Rows, Cols, mtx, other>>

\* a == a
EqSelf ==
    /\ op' = "eq_self"
    /\ args' = <<>>
    /\ ret' = Outcome("ok", operator_eq(This, This, TRUE))
    /\ UNCHANGED <<Rows, Cols, mtx, other>>

\* a != b
Ne ==
    /\ op' = "ne"
    /\ args' = <<>>
    /\ ret' = Outcome("ok", operator_ne(This, other, FALSE))
    /\ UNCHANGED <<Rows, Cols, mtx, other>>

NextPair ==
    \/ QueryRows \/ QueryColumns \/ QuerySize \/ QueryEmpty
    \/ \E v \in Values : Fill(v)
    \/ \E v \in Values : CtorFill(v)
    \/ Swap \/ StaticSwap \/ SwapSelf
    \/ CtorCopy \/ CopyAssign \/ SelfAssign
    \/ \E row \in 0..(Rows - 1), col \in 0..(Cols - 1), v \in Values :
          CtorCopyAssign(row, col, v)
    \/ \E row \in 0..(Rows - 1), col \in 0..(Cols - 1), v \in Values :
          AssignA(row, col, v)
    \/ \E row \in 0..(Rows - 1), col \in 0..(Cols - 1), v \in Values :
          AssignB(row, col, v)
    \/ PlusAssign \/ MinusAssign
    \/ Plus \/ Minus \/ PlusMinus
    \/ Eq \/ EqReversed \/ EqSelf \/ Ne

SpecPair == InitPair /\ [][NextPair]_vars

----------------------------------------------------------------------------
\* Properties of SpecPair.

\* The flat indices of an object of the type of a.
Flat == 0..(Rows * Cols - 1)

\* Whether every valid (row, col) of m reads v through at().
AllRead(m, v) ==
    \A row \in 0..(m.rows - 1), col \in 0..(m.cols - 1) :
        at(m, row, col) = Outcome("ok", v)

\* C11: after a.fill(v), and in the matrix constructed from the one value v,
\* at(row, col) returns v for every valid (row, col), whatever a held before.
C11_FillSetsAll ==
    /\ op = "fill" => AllRead(This, args[1])
    /\ op = "ctor_fill" =>
          /\ ret.val.rows = Rows /\ ret.val.cols = Cols
          /\ AllRead(ret.val, args[1])

\* a 2x2 matrix has been filled with 1.
C11_Witness ==
    /\ op = "fill" /\ args = <<1>> /\ Rows = 2 /\ Cols = 2
    /\ \A k \in Flat : mtx[k] = 1

\* C12: A + B - B == A for all A and B of one shape (integers, no overflow).
C12_AddSubRoundTrip ==
    op = "plus_minus" =>
        /\ operator_eq(ret.val, This, FALSE)
        /\ ret.val = This

\* a + b - b has been computed for a 2x2 b with a nonzero element.
C12_Witness ==
    /\ op = "plus_minus" /\ Rows = 2 /\ Cols = 2
    /\ \E k \in Flat : other.mtx[k] # 0
    /\ ret.val = This

\* C13: a + b and a - b hold the pairwise sums and differences and leave a and
\* b as they were; a += b and a -= b store the same into a and leave b as it
\* was.
C13_ElementWise ==
    [][ /\ op' = "plus" =>
              /\ ret'.val.rows = Rows /\ ret'.val.cols = Cols
              /\ DOMAIN ret'.val.mtx = Flat
              /\ \A k \in Flat : ret'.val.mtx[k] = mtx[k] + other.mtx[k]
              /\ mtx' = mtx /\ other' = other
        /\ op' = "minus" =>
              /\ ret'.val.rows = Rows /\ ret'.val.cols = Cols
              /\ DOMAIN ret'.val.mtx = Flat
              /\ \A k \in Flat : ret'.val.mtx[k] = mtx[k] - other.mtx[k]
              /\ mtx' = mtx /\ other' = other
        /\ op' = "plus_assign" =>
              /\ DOMAIN mtx' = Flat
              /\ \A k \in Flat : mtx'[k] = mtx[k] + other.mtx[k]
              /\ other' = other
        /\ op' = "minus_assign" =>
              /\ DOMAIN mtx' = Flat
              /\ \A k \in Flat : mtx'[k] = mtx[k] - other.mtx[k]
              /\ other' = other
      ]_vars

\* a += b has made an element 2 (1 + 1) and left another as it was (+ 0).
C13_Witness ==
    /\ op = "plus_assign" /\ Rows * Cols >= 2
    /\ \E k \in Flat : mtx[k] = 2 /\ other.mtx[k] = 1
    /\ \E k \in Flat : other.mtx[k] = 0

\* Whether every element of x equals the element of y at the same flat index.
ElementsEqual(x, y) == \A k \in DOMAIN x.mtx : x.mtx[k] = y.mtx[k]

\* C14: a == b holds iff every pair of corresponding elements is equal; a == a
\* holds; b == a is a == b; a != b is the negation of a == b.
C14_Equality ==
    /\ op = "eq" => ret.val = ElementsEqual(This, other)
    /\ op = "eq_reversed" =>
          /\ ret.val = ElementsEqual(This, other)
          /\ ret.val = operator_eq(This, other, FALSE)
    /\ op = "eq_self" => ret.val = TRUE
    /\ op = "ne" =>
          /\ ret.val = ~ElementsEqual(This, other)
          /\ ret.val = ~operator_eq(This, other, FALSE)

\* a == b has returned false for two 2x2 matrices that differ in the last
\* element only.
C14_Witness ==
    /\ op = "eq" /\ ret.val = FALSE /\ Rows = 2 /\ Cols = 2
    /\ \A k \in 0..2 : mtx[k] = other.mtx[k]
    /\ mtx[3] # other.mtx[3]

\* The capacity queries.
CapacityOps == {"rows", "columns", "size", "empty"}

\* C17: whatever has been done to a and b, rows() is R, columns() is C,
\* size() is R*C, which is the number of elements of the storage, and empty()
\* holds iff R*C is 0; the capacity queries change no element.
C17_ShapeInvariant ==
    /\ [](/\ DOMAIN mtx = Flat
          /\ DOMAIN other.mtx = Flat
          /\ rows(This) = Rows /\ rows(other) = Rows
          /\ columns(This) = Cols /\ columns(other) = Cols
          /\ size(This) = Rows * Cols /\ size(other) = Rows * Cols
          /\ empty(This) <=> (Rows * Cols = 0)
          /\ empty(other) <=> (Rows * Cols = 0)
          /\ op = "rows" => ret.val = Rows
          /\ op = "columns" => ret.val = Cols
          /\ op = "size" => ret.val = Rows * Cols
          /\ op = "empty" => ret.val = (Rows * Cols = 0))
    /\ [][op' \in CapacityOps => mtx' = mtx /\ other' = other]_vars

\* columns() has returned 1 on a 2x1 matrix that was written before.
C17_Witness ==
    /\ op = "columns" /\ ret.val = 1 /\ Rows = 2 /\ Cols = 1
    /\ \E k \in Flat : mtx[k] \notin Values

\* C18: a.swap(b) and swap(a, b) leave in a the elements b had and in b the
\* elements a had; a second swap restores both; a.swap(a) leaves a as it was.
C18_SwapExchanges ==
    [][ /\ op' \in {"swap", "static_swap"} =>
              /\ mtx' = other.mtx
              /\ other'.mtx = mtx
              /\ other'.rows = Rows /\ other'.cols = Cols
              /\ swap(swap(This, other)[1], swap(This, other)[2]) = <<This, other>>
              /\ static_swap(static_swap(This, other)[1],
                             static_swap(This, other)[2]) = <<This, other>>
        /\ op' = "swap_self" => mtx' = mtx /\ other' = other
      ]_vars

\* a.swap(b) has exchanged two different 2x2 contents.
C18_Witness ==
    /\ op = "swap" /\ Rows = 2 /\ Cols = 2
    /\ \A k \in Flat : mtx[k] = 1 /\ other.mtx[k] = 0

\* C20: after c(a) and after b = a the copy equals a and a is as it was; a
\* later write to an element of one leaves the other as it was; a = a leaves a
\* as it was.
C20_CopyDuplicates ==
    [][ /\ op' = "ctor_copy" =>
              /\ ret'.val = This /\ operator_eq(ret'.val, This, FALSE)
              /\ mtx' = mtx /\ other' = other
        /\ op' = "ctor_copy_assign" =>
              /\ ret'.val.mtx[args'[1] * Cols + args'[2]] = args'[3]
              /\ \A k \in Flat \ {args'[1] * Cols + args'[2]} :
                    ret'.val.mtx[k] = mtx[k]
              /\ mtx' = mtx /\ other' = other
        /\ op' = "copy_assign" =>
              /\ other' = This /\ operator_eq(other', This, FALSE)
              /\ mtx' = mtx
        /\ op' = "assign_a" =>
              /\ mtx'[args'[1] * Cols + args'[2]] = args'[3]
              /\ other' = other
        /\ op' = "assign_b" =>
              /\ other'.mtx[args'[1] * Cols + args'[2]] = args'[3]
              /\ mtx' = mtx
        /\ op' = "self_assign" => mtx' = mtx /\ other' = other
      ]_vars

\* b = a has left in b the four elements of a 2x2 a.
C20_Witness ==
    /\ op = "copy_assign" /\ Rows = 2 /\ Cols = 2
    /\ other = This
    /\ \A k \in Flat : mtx[k] = 1

----------------------------------------------------------------------------
\* One object read and written through every access path, and sent to a
\* stream: SpecAccess.

AccessShapes ==
    {shape \in (0..MaxAccessDim) \X (0..MaxAccessDim) :
        shape[1] * shape[2] <= MaxAccessSize}

\* The matrix of the documentation's example of write(), and one whose
\* elements have more than one digit or a sign.
Example2x2 == FromRows(2, 2, <<<<1, 2>>, <<3, 4>>>>)
ExampleDecimal == FromRows(1, 3, <<<<10, -3, 205>>>>)

\* The delimiters write() is called with.
Delims == {" ", ","}

InitAccess ==
    /\ \E m \in UNION {MatricesOf(shape[1], shape[2]) : shape \in AccessShapes}
                \cup {Example2x2, ExampleDecimal} :
          /\ Rows = m.rows
          /\ Cols = m.cols
          /\ mtx = m.mtx
    /\ other = DefaultMatrix(0, 0)
    /\ op = "none"
    /\ args = <<>>
    /\ ret = Outcome("ok", 0)

\* m(row, col)
Call(row, col) ==
    /\ op' = "call"
    /\ args' = [row |-> row, col |-> col]
    /\ ret' = Outcome("ok", unchecked(This, row, col, 0))
    /\ UNCHANGED <<Rows, Cols, mtx, other>>

\* m(row, col) = v
CallAssign(row, col, v) ==
    /\ op' = "call_assign"
    /\ args' = [row |-> row, col |-> col, v |-> v]
    /\ ret' = Outcome("ok", v)
    /\ mtx' = call_assign(This, row, col, v)
    /\ UNCHANGED <<Rows, Cols, other>>

\* m[row][col] on a non-const m
Subscript(row, col) ==
    /\ op' = "subscript"
    /\ args' = [row |-> row, col |-> col]
    /\ ret' = Outcome("ok",
                  proxy_subscript(mtx, operator_subscript(This, row).val, col))
    /\ UNCHANGED <<Rows, Cols, mtx, other>>

\* m[row][col] = v
SubscriptAssign(row, col, v) ==
    /\ op' = "subscript_assign"
    /\ args' = [row |-> row, col |-> col, v |-> v]
    /\ ret' = Outcome("ok", v)
    /\ mtx' = proxy_subscript_assign(mtx, operator_subscript(This, row).val, col, v)
    /\ UNCHANGED <<Rows, Cols, other>>

\* cm[row][col] where cm is m seen as a const fixed_matrix
SubscriptConst(row, col) ==
    /\ op' = "subscript_const"
    /\ args' = [row |-> row, col |-> col]
    /\ ret' = IF operator_subscript_const(This, row).kind = "ok"
              THEN Outcome("ok",
                       proxy_subscript(mtx, operator_subscript_const(This, row).val, col))
              ELSE operator_subscript_const(This, row)
    /\ UNCHANGED <<Rows, Cols, mtx, other>>

\* *(m.begin() + pos)
IteratorDeref(pos) ==
    /\ op' = "iterator_deref"
    /\ args' = [pos |-> pos]
    /\ ret' = Outcome("ok", iterator_deref(This, pos))
    /\ UNCHANGED <<Rows, Cols, mtx, other>>

\* *(m.begin() + pos) = v
IteratorAssign(pos, v) ==
    /\ op' = "iterator_assign"
    /\ args' = [pos |-> pos, v |-> v]
    /\ ret' = Outcome("ok", v)
    /\ mtx' = iterator_assign(This, pos, v)
    /\ UNCHANGED <<Rows, Cols, other>>

\* m.write(os, delim) with os an empty stream; the result is the text in os.
Write(delim) ==
    /\ op' = "write"
    /\ args' = [delim |-> delim]
    /\ \/ ret' = Outcome("ok", write(This, delim))
       \/ /\ write_undefined(This)
          /\ ret' = Outcome("crash", 0)
    /\ UNCHANGED <<Rows, Cols, mtx, other>>

NextAccess ==
    \/ \E row \in 0..(Rows - 1), col \in 0..(Cols - 1) : At(row, col)
    \/ \E row \in 0..(Rows - 1), col \in 0..(Cols - 1) : Call(row, col)
    \/ \E row \in 0..(Rows - 1), col \in 0..(Cols - 1) : Subscript(row, col)
    \/ \E row \in 0..(Rows - 1), col \in 0..(Cols - 1) : SubscriptConst(row, col)
    \/ \E row \in 0..(Rows - 1), col \in 0..(Cols - 1), v \in Values :
          AtAssign(row, col, v)
    \/ \E row \in 0..(Rows - 1), col \in 0..(Cols - 1), v \in Values :
          CallAssign(row, col, v)
    \/ \E row \in 0..(Rows - 1), col \in 0..(Cols - 1), v \in Values :
          SubscriptAssign(row, col, v)
    \/ \E pos \in 0..(Rows * Cols - 1) : IteratorDeref(pos)
    \/ \E pos \in 0..(Rows * Cols - 1), v \in Values : IteratorAssign(pos, v)
    \/ \E delim \in Delims : Write(delim)

SpecAccess == InitAccess /\ [][NextAccess]_vars

----------------------------------------------------------------------------
\* Properties of SpecAccess.

\* The text of row `row` of m from column col on: each element followed by
\* the delimiter.
RECURSIVE RowText(_, _, _, _)
RowText(m, delim, row, col) ==
    IF col < m.cols
    THEN insert_int(at(m, row, col).val) \o delim \o RowText(m, delim, row, col + 1)
    ELSE ""

\* The text of m from row `row` on: each row followed by a line break.
RECURSIVE MatrixText(_, _, _)
MatrixText(m, delim, row) ==
    IF row < m.rows /\ m.cols > 0
    THEN RowText(m, delim, row, 0) \o "\n" \o MatrixText(m, delim, row + 1)
    ELSE ""

\* C16: write(stream, delim) sends the elements in row-major order, each
\* followed by the delimiter, with a line break after every C-th element and
\* nowhere else, and leaves the matrix as it was; [[1,2],[3,4]] with ' ' gives
\* "1 2 \n3 4 \n".
C16_Write ==
    /\ [](op = "write" =>
            /\ ret.val = MatrixText(This, args.delim, 0)
            /\ (This = Example2x2 /\ args.delim = " ") => ret.val = "1 2 \n3 4 \n")
    /\ [][op' = "write" => mtx' = mtx]_vars

\* [[1,2],[3,4]] has been written with ' '.
C16_Witness ==
    /\ op = "write" /\ This = Example2x2 /\ args.delim = " "
    /\ ret.val = "1 2 \n3 4 \n"

\* How many of the first n characters of text are ch.
RECURSIVE CountChar(_, _, _)
CountChar(text, ch, n) ==
    IF n = 0 THEN 0
    ELSE CountChar(text, ch, n - 1) + (IF SubSeq(text, n, n) = ch THEN 1 ELSE 0)

\* C26: write on an empty matrix (R*C = 0, C = 0 included) sends nothing and
\* never evaluates count % C with C = 0; on a non-empty matrix it sends
\* exactly R*C delimiters and exactly R line breaks.
C26_WriteEmpty ==
    op = "write" =>
        /\ ret.kind = "ok"
        /\ ~write_undefined(This)
        /\ Rows * Cols = 0 => ret.val = ""
        /\ Rows * Cols > 0 =>
               /\ CountChar(ret.val, args.delim, Len(ret.val)) = Rows * Cols
               /\ CountChar(ret.val, "\n", Len(ret.val)) = Rows

\* A matrix of 2 rows and no column has been written: nothing was sent.
C26_Witness ==
    /\ op = "write" /\ Rows = 2 /\ Cols = 0
    /\ ret = Outcome("ok", "")

\* The write operations of SpecAccess whose arguments are a row and a column.
ElementWrites == {"at_assign", "call_assign", "subscript_assign"}

\* Whether every path of a non-const object reads v at (row, col).
ReadBack(row, col, v) ==
    /\ at(This, row, col) = Outcome("ok", v)
    /\ unchecked(This, row, col, Unwritten) = v
    /\ proxy_subscript(mtx, operator_subscript(This, row).val, col) = v
    /\ iterator_deref(This, row * Cols + col) = v

\* The access paths of a non-const object agree.
MutablePathsAgree ==
    /\ \A row \in 0..(Rows - 1), col \in 0..(Cols - 1) :
          ReadBack(row, col, mtx[row * Cols + col])
    /\ \A pos \in 0..(Rows * Cols - 1) :
          iterator_deref(This, pos) = at(This, pos \div Cols, pos % Cols).val
    /\ op \in {"call", "subscript"} => ret.val = mtx[args.row * Cols + args.col]
    /\ op = "iterator_deref" => ret.val = mtx[args.pos]
    /\ op \in ElementWrites => ReadBack(args.row, args.col, args.v)
    /\ op = "iterator_assign" =>
          ReadBack(args.pos \div Cols, args.pos % Cols, args.v)

\* C19: for every row < R and col < C, at(row, col), operator()(row, col) and
\* m[row][col] denote the element at flat index row*C + col, the k-th element
\* in iteration order is element (k div C, k mod C), and a write through one
\* path is read back through the others.
C19_AccessPaths ==
    /\ MutablePathsAgree
    /\ op = "subscript_const" =>
          ret = Outcome("ok", mtx[args.row * Cols + args.col])

----------------------------------------------------------------------------
\* Two objects a and b of one type under failing and self-aliased arithmetic
\* and move assignment: SpecAlias.  a is (Rows, Cols, mtx), b is other.

\* a += b where the element-level += throws at flat index bad.
PlusAssignThrow(bad) ==
    /\ OverValues
    /\ op' = "plus_assign_throw"
    /\ args' = <<bad>>
    /\ ret' = Outcome(plus_assign_loop_throwing(
                          mtx, other.mtx, 0, Rows * Cols, bad).kind, 0)
    /\ mtx' = plus_assign_loop_throwing(mtx, other.mtx, 0, Rows * Cols, bad).val
    /\ UNCHANGED <<Rows, Cols, other>>

\* a -= b where the element-level -= throws at flat index bad.
MinusAssignThrow(bad) ==
    /\ OverValues
    /\ op' = "minus_assign_throw"
    /\ args' = <<bad>>
    /\ ret' = Outcome(minus_assign_loop_throwing(
                          mtx, other.mtx, 0, Rows * Cols, bad).kind, 0)
    /\ mtx' = minus_assign_loop_throwing(mtx, other.mtx, 0, Rows * Cols, bad).val
    /\ UNCHANGED <<Rows, Cols, other>>

\* a += a
PlusAssignSelf ==
    /\ OverValues
    /\ op' = "plus_assign_self"
    /\ args' = <<>>
    /\ ret' = Outcome("ok", 0)
    /\ mtx' = operator_plus_assign_self(This).mtx
    /\ UNCHANGED <<Rows, Cols, other>>

\* a -= a
MinusAssignSelf ==
    /\ OverValues
    /\ op' = "minus_assign_self"
    /\ args' = <<>>
    /\ ret' = Outcome("ok", 0)
    /\ mtx' = operator_minus_assign_self(This).mtx
    /\ UNCHANGED <<Rows, Cols, other>>

\* a + a
PlusSelf ==
    /\ op' = "plus_self"
    /\ args' = <<>>
    /\ ret' = Outcome("ok", operator_plus_self(This))
    /\ UNCHANGED <<Rows, Cols, mtx, other>>

\* a - a
MinusSelf ==
    /\ op' = "minus_self"
    /\ args' = <<>>
    /\ ret' = Outcome("ok", operator_minus_self(This))
    /\ UNCHANGED <<Rows, Cols, mtx, other>>

\* a = std::move(b)
MoveAssign ==
    /\ OverValues
    /\ op' = "move_assign"
    /\ args' = <<>>
    /\ ret' = Outcome("ok", 0)
    /\ mtx' = operator_move_assign(This, other, FALSE)[1].mtx
    /\ other' = operator_move_assign(This, other, FALSE)[2]
    /\ UNCHANGED <<Rows, Cols>>

\* a = std::move(a)
MoveAssignSelf ==
    /\ OverValues
    /\ op' = "move_assign_self"
    /\ args' = <<>>
    /\ ret' = Outcome("ok", 0)
    /\ mtx' = operator_move_assign(This, This, TRUE)[1].mtx
    /\ UNCHANGED <<Rows, Cols, other>>

NextAlias ==
    \/ \E bad \in 0..(Rows * Cols - 1) : PlusAssignThrow(bad)
    \/ \E bad \in 0..(Rows * Cols - 1) : MinusAssignThrow(bad)
    \/ PlusAssignSelf \/ MinusAssignSelf
    \/ PlusSelf \/ MinusSelf
    \/ MoveAssign \/ MoveAssignSelf

SpecAlias == InitPair /\ [][NextAlias]_vars

----------------------------------------------------------------------------
\* Properties of SpecAlias.

\* C21: if operator+= or operator-= fails at some element, the left-hand
\* matrix holds exactly the elements it held before the call.
C21_StrongGuarantee ==
    [][(op' \in {"plus_assign_throw", "minus_assign_throw"}
            /\ ret'.kind = "exception")
          => mtx' = mtx]_vars

\* C24: a = std::move(b) leaves in a the elements b had and in b the elements
\* a had; a = std::move(a) leaves a as it was.
C24_MoveExchanges ==
    [][ /\ op' = "move_assign" =>
              /\ mtx' = other.mtx
              /\ other'.mtx = mtx
              /\ other'.rows = Rows /\ other'.cols = Cols
        /\ op' = "move_assign_self" => mtx' = mtx /\ other' = other
      ]_vars

\* a = std::move(b) has left all 1 in a and all 0 in b, both 2x2.
C24_Witness ==
    /\ op = "move_assign" /\ Rows = 2 /\ Cols = 2
    /\ \A k \in Flat : mtx[k] = 1 /\ other.mtx[k] = 0

\* C27: a += a leaves every element twice what it was and a -= a leaves every
\* element 0; a + a and a - a return those and leave a as it was.
C27_SelfArithmetic ==
    [][ /\ op' = "plus_assign_self" =>
              /\ DOMAIN mtx' = Flat
              /\ \A k \in Flat : mtx'[k] = 2 * mtx[k]
        /\ op' = "minus_assign_self" =>
              /\ DOMAIN mtx' = Flat
              /\ \A k \in Flat : mtx'[k] = 0
        /\ op' = "plus_self" =>
              /\ ret'.val.rows = Rows /\ ret'.val.cols = Cols
              /\ DOMAIN ret'.val.mtx = Flat
              /\ \A k \in Flat : ret'.val.mtx[k] = 2 * mtx[k]
              /\ mtx' = mtx
        /\ op' = "minus_self" =>
              /\ ret'.val.rows = Rows /\ ret'.val.cols = Cols
              /\ DOMAIN ret'.val.mtx = Flat
              /\ \A k \in Flat : ret'.val.mtx[k] = 0
              /\ mtx' = mtx
      ]_vars

\* a += a has doubled the elements of a 2x2 a whose first element was 0 and
\* whose last was 1.
C27_Witness ==
    /\ op = "plus_assign_self" /\ Rows = 2 /\ Cols = 2
    /\ mtx[0] = 0 /\ mtx[3] = 2

====
